---- MODULE Spec2Model ----
(***************************************************************************)
(* Storage engine of the labour reporting app (src/app.py): the exclusive  *)
(* file lock, the atomic file writer, the per-day counter, the per-user    *)
(* document writer and the per-day aggregate appender, run by several      *)
(* independent sessions against one shared data directory.                 *)
(*                                                                         *)
(* Files are sequences of tokens.  A counter file is a sequence of         *)
(* characters.  An XML file is a sequence of the tokens "hdr" (the XML     *)
(* declaration and the opening tag of the entities envelope), "rec" (one   *)
(* occupation element), "end" (the closing tag), "sp" (a blank), "nul" (a  *)
(* zero byte) and "junk" (bytes that are not XML).  A write at an offset   *)
(* overlays the tokens from that offset on and zero-fills a hole, as a     *)
(* write system call does.                                                 *)
(***************************************************************************)
EXTENDS Integers, Sequences, FiniteSets, TLC

\* ---------------------------------------------------------------- bounds
NumProcs == 2
NumUsers == 1
NumDays == 1
MaxSubs == 2
MaxFaults == 1
MaxClock == 1
SecsPerDay == 1

\* ------------------------------------------------------ program constants
COUNTER_START == 300

Procs == 1..NumProcs
Users == 1..NumUsers
Days == 1..NumDays
Times == 0..MaxClock
NoProc == 0

\* ---------------------------------------------------------------- helpers
Max(a, b) == IF a < b THEN b ELSE a

\* The calendar date of an instant (datetime.date() of a Sydney datetime).
DateOf(t) == 1 + (t \div SecsPerDay)

DigitChars == <<"0", "1", "2", "3", "4", "5", "6", "7", "8", "9">>

DigitVal(c) == CHOOSE i \in 0..9 : DigitChars[i + 1] = c

IsAsciiDigit(c) == \E i \in 1..10 : DigitChars[i] = c

\* str(n) for a non-negative int: its decimal digits.
RECURSIVE IntToStr(_)
IntToStr(n) ==
  IF n < 10 THEN <<DigitChars[n + 1]>>
  ELSE Append(IntToStr(n \div 10), DigitChars[(n % 10) + 1])

\* bytes.strip() / str.strip(): blanks removed at both ends.
RECURSIVE LStripSp(_)
LStripSp(s) ==
  IF s # <<>> /\ Head(s) = " " THEN LStripSp(Tail(s)) ELSE s

RECURSIVE RStripSp(_)
RStripSp(s) ==
  IF s # <<>> /\ s[Len(s)] = " " THEN RStripSp(SubSeq(s, 1, Len(s) - 1)) ELSE s

Strip(s) == RStripSp(LStripSp(s))

\* str.isdigit(): non-empty and every character is a digit character; the
\* superscript two "sup2" is a digit character for isdigit.
IsDigitStr(s) ==
  /\ s # <<>>
  /\ \A i \in 1..Len(s) : IsAsciiDigit(s[i]) \/ s[i] = "sup2"

\* int(s) accepts decimal digits only; it raises ValueError on "sup2".
IntAccepts(s) == s # <<>> /\ \A i \in 1..Len(s) : IsAsciiDigit(s[i])

RECURSIVE StrToInt(_)
StrToInt(s) ==
  IF s = <<>> THEN 0
  ELSE 10 * StrToInt(SubSeq(s, 1, Len(s) - 1)) + DigitVal(s[Len(s)])

\* int(s) of a form field: blanks around the digits and one sign are
\* accepted; anything else raises ValueError (ok is FALSE).
PyInt(s) ==
  LET t == Strip(s)
      signed == t # <<>> /\ t[1] \in {"-", "+"}
      body == IF signed THEN Tail(t) ELSE t
  IN IF IntAccepts(body)
     THEN [ok |-> TRUE,
           v |-> IF signed /\ t[1] = "-" THEN 0 - StrToInt(body)
                 ELSE StrToInt(body)]
     ELSE [ok |-> FALSE, v |-> 0]

\* The positions of ":" in s.
Colons(s) == {i \in 1..Len(s) : s[i] = ":"}

\* parse_hhmm_to_hours: None (NoHours), or hh + mm / 60 counted in
\* sixtieths of an hour.
NoHours == 0 - 1
parse_hhmm_to_hours(text) ==
  LET s == Strip(text)
  IN IF Cardinality(Colons(s)) # 1 THEN NoHours
     ELSE LET c == CHOOSE i \in Colons(s) : TRUE
              hh == PyInt(SubSeq(s, 1, c - 1))
              mm == PyInt(SubSeq(s, c + 1, Len(s)))
          IN IF ~hh.ok \/ ~mm.ok THEN NoHours
             ELSE IF hh.v < 0 \/ mm.v < 0 \/ mm.v >= 60 THEN NoHours
             ELSE 60 * hh.v + mm.v

\* A file of the data directory: it exists or not, and holds its bytes.
AbsentFile == [ex |-> FALSE, data |-> <<>>]
FileOf(d) == [ex |-> TRUE, data |-> d]

\* write(2) of data at offset off (counted from 0): overlay, zero-fill holes.
WriteAt(old, off, data, fill) ==
  LET n == Max(Len(old), off + Len(data))
  IN [i \in 1..n |->
        IF i > off /\ i <= off + Len(data) THEN data[i - off]
        ELSE IF i <= Len(old) THEN old[i]
        ELSE fill]

\* ftruncate(2) to length n.
TruncTo(old, n, fill) ==
  [i \in 1..n |-> IF i <= Len(old) THEN old[i] ELSE fill]

\* ------------------------------------------------------- text conversions
\* fmt_dt: "%Y-%m-%d %H:%M:%S" of an instant, as the pair of its date part
\* and its time-of-day part.
fmt_dt(t) == <<DateOf(t), t % SecsPerDay>>

\* datetime.strptime(text, "%Y-%m-%d %H:%M:%S") succeeds: a date part and a
\* time part in range, nothing else.
StrptimeOk(text) ==
  /\ Len(text) = 2
  /\ text[1] >= 1
  /\ text[2] \in 0..(SecsPerDay - 1)

\* n / d rounded to the nearest integer (no tie arises for the values used).
RoundDiv(n, d) == (2 * n + d) \div (2 * d)

Micro == 1000000

\* The six digits of a fraction counted in millionths.
Pad6(n) ==
  [i \in 1..6 |-> DigitChars[((n \div (10 ^ (6 - i))) % 10) + 1]]

\* Trailing zeros dropped, one digit kept.
RECURSIVE RStripZeros(_)
RStripZeros(s) ==
  IF Len(s) > 1 /\ s[Len(s)] = "0"
  THEN RStripZeros(SubSeq(s, 1, Len(s) - 1)) ELSE s

\* str(round(float(duration_hours), 6)), duration_hours in sixtieths.
DurationText(duration_hours) ==
  LET m == RoundDiv(duration_hours * Micro, 60)
  IN IntToStr(m \div Micro) \o <<".">> \o RStripZeros(Pad6(m % Micro))

\* float(text) in millionths for digits, one point and at most six
\* digits; ok is FALSE where float raises ValueError.
PyFloat(text) ==
  LET dots == {i \in 1..Len(text) : text[i] = "."}
  IN IF Cardinality(dots) # 1 THEN
       IF IntAccepts(text) THEN [ok |-> TRUE, v |-> StrToInt(text) * Micro]
       ELSE [ok |-> FALSE, v |-> 0]
     ELSE LET c == CHOOSE i \in dots : TRUE
              ip == SubSeq(text, 1, c - 1)
              fp == SubSeq(text, c + 1, Len(text))
          IN IF /\ (ip = <<>> \/ IntAccepts(ip))
                /\ (fp = <<>> \/ IntAccepts(fp))
                /\ (ip # <<>> \/ fp # <<>>)
                /\ Len(fp) <= 6
             THEN [ok |-> TRUE,
                   v |-> StrToInt(ip) * Micro
                         + StrToInt(fp) * (10 ^ (6 - Len(fp)))]
             ELSE [ok |-> FALSE, v |-> 0]

\* _safe_float: float(text), 0.0 when it raises.
safe_float(text) == IF PyFloat(text).ok THEN PyFloat(text).v ELSE 0

\* " ".join(comments.splitlines()).strip()
RECURSIVE JoinLines(_)
JoinLines(s) ==
  IF s = <<>> THEN <<>>
  ELSE <<IF Head(s) = "\n" THEN " " ELSE Head(s)>> \o JoinLines(Tail(s))

CommentText(comments) == Strip(JoinLines(comments))

\* ------------------------------------------------------------- XML tokens
\* A child element or attribute of an occupation element: present or not,
\* and its text.
Absent == [has |-> FALSE, v |-> <<>>]
Child(text) == [has |-> TRUE, v |-> text]

\* The content of an occupation element: the code attributes of
\* occupation_technician, occupation_WO, occupation_hourType and
\* occupation_type, and the texts of occupation_occupationDate,
\* occupation_duration, description_description and occupation_id.
NoFields ==
  [technician |-> Absent, occupationDate |-> Absent, duration |-> Absent,
   WO |-> Absent, hourType |-> Absent, type |-> Absent,
   description |-> Absent, id |-> Absent]

\* A token of a file: its kind; for an occupation element its content x,
\* and the submission, id, user and instant it was built from.
Tok(k) == [k |-> k, sub |-> 0, id |-> 0, user |-> 0, dt |-> 0,
           x |-> NoFields]
HDR == Tok("hdr")
END == Tok("end")
SP == Tok("sp")
NUL == Tok("nul")
JUNK == Tok("junk")
\* The opening and closing tag of a well-formed document whose root is not
\* entities.
OHDR == Tok("ohdr")
OEND == Tok("oend")

IsRec(t) == t.k = "rec"

\* existing.lstrip(b"\x00").lstrip(): leading zero bytes, then leading blanks.
RECURSIVE LStripTok(_, _)
LStripTok(s, k) ==
  IF s # <<>> /\ Head(s).k = k THEN LStripTok(Tail(s), k) ELSE s

StripPadding(s) == LStripTok(LStripTok(s, "nul"), "sp")

\* ET.fromstring succeeds and the root tag is entities.
ParsesAsEntities(s) ==
  /\ Len(s) >= 2
  /\ s[1] = HDR
  /\ s[Len(s)] = END
  /\ \A i \in 2..(Len(s) - 1) : IsRec(s[i])

\* The children of the parsed root, in document order.
ChildrenOf(s) == SubSeq(s, 2, Len(s) - 1)

\* xml_to_bytes of an entities root with the given children.
xml_to_bytes(children) == <<HDR>> \o children \o <<END>>

\* build_occupation_element: the occupation element of submission sub of
\* user, for the arguments a of the source function.
build_occupation_element(sub, user, a) ==
  [k |-> "rec", sub |-> sub, id |-> a.occ_id, user |-> user,
   dt |-> a.occ_dt,
   x |-> [technician |-> Child(a.technician_code),
          occupationDate |-> Child(fmt_dt(a.occ_dt)),
          duration |-> Child(DurationText(a.duration_hours)),
          WO |-> Child(a.wo_code),
          hourType |-> Child(a.hour_type),
          type |-> IF Strip(a.occupation_type) # <<>>
                   THEN Child(Strip(a.occupation_type)) ELSE Absent,
          description |-> Child(CommentText(a.comments)),
          id |-> Child(IntToStr(a.occ_id))]]

\* build_entities_xml_with_one
build_entities_xml_with_one(elem) == xml_to_bytes(<<elem>>)

RecsIn(s) == {i \in 1..Len(s) : IsRec(s[i])}


\* ------------------------------------------------------------------ state
VARIABLES
  os_name,    \* os.name of the deployment: "posix" or "nt"
  now,        \* the clock, in seconds (now_sydney)
  cfile,      \* day -> the day's counter file
  afile,      \* day -> the day's aggregate (allEmployee) file
  ufile,      \* user folder -> file name (creation second) -> per-user file
  tmpf,       \* process -> the temporary file of its atomic write
  lock,       \* kind of file -> day -> the process holding its lock
  pc,         \* process -> where it stands in the save handler
  loc,        \* process -> the local variables of its save handler
  nsub,       \* number of submissions started
  nfault,     \* number of I/O errors and crashes so far
  returned,   \* day -> the ids get_next_occupation_id_for_day returned
  ctrCalls,   \* day -> number of get_next_occupation_id_for_day calls made
  appended,   \* day -> elements whose append_to_daily_all call returned
  lastVal,    \* day -> the integer last stored in the counter file
  scen,       \* the content of the data directory at start
  acq,        \* day -> submissions in the order they got the aggregate lock
  user_folder,   \* get_user_entries_for_day: the folder it reads
  selected_day,  \* get_user_entries_for_day: the day asked for
  rpc,           \* get_user_entries_for_day: "loop" or "done"
  fpos,          \* get_user_entries_for_day: files of the folder read so far
  rows,          \* get_user_entries_for_day: the rows collected so far
  df             \* get_user_entries_for_day: the table returned

vars == <<os_name, now, cfile, afile, ufile, tmpf, lock, pc, loc, nsub,
          nfault, returned, ctrCalls, appended, lastVal, scen, acq,
          user_folder, selected_day, rpc, fpos, rows, df>>

\* The variables of one get_user_entries_for_day call.
view == <<user_folder, selected_day, rpc, fpos, rows, df>>

env == <<os_name, now, scen>>

NoVal == 0 - 1

\* The integer a counter file holds, when it holds decimal digits only.
StoredInt(f) ==
  IF f.ex /\ IntAccepts(f.data) THEN StrToInt(f.data) ELSE NoVal

NoElem == Tok("none")

InitLoc ==
  [user |-> 0, day |-> 0, occ_dt |-> 0, occ_id |-> 0, sub |-> 0,
   kind |-> "none", mode |-> "", fopen |-> FALSE, acquired |-> FALSE,
   unlock_tried |-> FALSE, exc |-> FALSE, current |-> 0,
   elem |-> NoElem, prev |-> <<>>, new_content |-> <<>>, off |-> 0,
   technician_code |-> <<>>, wo_code |-> <<>>, dur_hours |-> NoHours,
   hour_type |-> <<>>, occupation_type |-> <<>>, comment |-> <<>>]

\* The record of a submission made before the model starts.
R0 ==
  build_occupation_element(0, 1,
    [occ_id |-> COUNTER_START, technician_code |-> <<"T">>,
     wo_code |-> <<"W">>, hour_type |-> <<"N">>, occupation_type |-> <<>>,
     duration_hours |-> 60, comments |-> <<>>, occ_dt |-> 0])

\* What day 1 can hold at start: nothing; the files after one submission;
\* a counter file that is empty, not a number or below the base; an
\* aggregate file that is not XML; an aggregate file that is a document of
\* another root, longer than an envelope of one record.
Scenarios ==
  {[c |-> AbsentFile, a |-> AbsentFile, u |-> FALSE],
   [c |-> FileOf(IntToStr(COUNTER_START + 1)),
    a |-> FileOf(xml_to_bytes(<<R0>>)), u |-> TRUE],
   [c |-> FileOf(<<>>), a |-> AbsentFile, u |-> FALSE],
   [c |-> FileOf(<<"x">>), a |-> AbsentFile, u |-> FALSE],
   [c |-> FileOf(<<"7">>), a |-> AbsentFile, u |-> FALSE],
   [c |-> FileOf(<<"sup2">>), a |-> AbsentFile, u |-> FALSE],
   [c |-> FileOf(IntToStr(COUNTER_START + 1)),
    a |-> FileOf(<<JUNK>>), u |-> TRUE],
   [c |-> FileOf(IntToStr(COUNTER_START + 1)),
    a |-> FileOf(<<OHDR, R0, R0, R0, OEND>>), u |-> TRUE]}

Init ==
  /\ os_name \in {"posix", "nt"}
  /\ now = 0
  /\ scen \in Scenarios
  /\ cfile = [d \in Days |-> IF d = 1 THEN scen.c ELSE AbsentFile]
  /\ afile = [d \in Days |-> IF d = 1 THEN scen.a ELSE AbsentFile]
  /\ ufile = [u \in Users |-> [t \in Times |->
                IF scen.u /\ u = R0.user /\ t = R0.dt
                THEN FileOf(build_entities_xml_with_one(R0)) ELSE AbsentFile]]
  /\ tmpf = [p \in Procs |-> AbsentFile]
  /\ lock = [k \in {"ctr", "agg"} |-> [d \in Days |-> NoProc]]
  /\ pc = [p \in Procs |-> "idle"]
  /\ loc = [p \in Procs |-> InitLoc]
  /\ nsub = 0
  /\ nfault = 0
  /\ returned = [d \in Days |-> <<>>]
  /\ ctrCalls = [d \in Days |-> 0]
  /\ appended = [d \in Days |-> <<>>]
  /\ lastVal = [d \in Days |-> StoredInt(cfile[d])]
  /\ acq = [d \in Days |-> <<>>]
  /\ user_folder = 1
  /\ selected_day = 1
  /\ rpc = "done"
  /\ fpos = 0
  /\ rows = <<>>
  /\ df = <<>>

\* ---------------------------------------------------------------- updates
SetLoc(p, r) == loc' = [loc EXCEPT ![p] = r]

Goto(p, l) == pc' = [pc EXCEPT ![p] = l]

SetCFile(d, f) ==
  /\ cfile' = [cfile EXCEPT ![d] = f]
  /\ lastVal' = [lastVal EXCEPT ![d] =
                   IF StoredInt(f) # NoVal THEN StoredInt(f) ELSE @]

SetAFile(d, f) == afile' = [afile EXCEPT ![d] = f]

\* The file a with locked_file block of p is about.
TargetFile(p) ==
  IF loc[p].kind = "ctr" THEN cfile[loc[p].day] ELSE afile[loc[p].day]

SetTarget(p, f) ==
  IF loc[p].kind = "ctr"
  THEN SetCFile(loc[p].day, f) /\ UNCHANGED afile
  ELSE SetAFile(loc[p].day, f) /\ UNCHANGED <<cfile, lastVal>>

\* The locks of p are dropped (unlock, close, or the death of the process).
Released(p) ==
  [k \in {"ctr", "agg"} |-> [d \in Days |->
     IF lock[k][d] = p THEN NoProc ELSE lock[k][d]]]


\* ------------------------------------------------------------ save handler
\* What the form can hold when the save button is pressed: one entry that
\* passes the checks, the same entry written with blanks, and entries with
\* one field that fails.
GoodForm ==
  [technician_code |-> <<"T">>, wo_code |-> <<"W">>,
   duration |-> <<"1", ":", "3", "0">>, hour_type |-> <<"N">>,
   occupation_type |-> <<>>, comment |-> <<"a", "\n", "b">>]

Forms ==
  {GoodForm,
   [GoodForm EXCEPT !.technician_code = <<" ", "T">>,
                    !.duration = <<" ", "1", ":", "3", "0", " ">>],
   [GoodForm EXCEPT !.technician_code = <<" ">>],
   [GoodForm EXCEPT !.wo_code = <<>>]}
  \cup {[GoodForm EXCEPT !.duration = d] :
          d \in {<<>>, <<"1", "3", "0">>, <<"1", ":", "6", "0">>,
                 <<"-", "1", ":", "0", "0">>, <<"1", ":", "-", "5">>,
                 <<"1", ":", "2", ":", "3">>, <<"x", ":", "0", "0">>,
                 <<":", "3", "0">>}}

\* The three checks of the save handler; st.error when one fails.
FormRejected(f) ==
  \/ Strip(f.technician_code) = <<>>
  \/ Strip(f.wo_code) = <<>>
  \/ parse_hhmm_to_hours(f.duration) = NoHours

\* A save handler that does not check the duration.
SubmitNoDurCheck(p) ==
  /\ pc[p] = "idle"
  /\ nsub < MaxSubs
  /\ nsub' = nsub + 1
  /\ \E u \in Users, d \in Days, f \in Forms :
       IF Strip(f.technician_code) = <<>> \/ Strip(f.wo_code) = <<>>
       THEN UNCHANGED <<pc, loc, ctrCalls>>
       ELSE /\ SetLoc(p, [InitLoc EXCEPT
                 !.user = u, !.day = d, !.occ_dt = now, !.sub = nsub + 1,
                 !.technician_code = Strip(f.technician_code),
                 !.wo_code = Strip(f.wo_code),
                 !.dur_hours = parse_hhmm_to_hours(f.duration),
                 !.hour_type = Strip(f.hour_type),
                 !.occupation_type = Strip(f.occupation_type),
                 !.comment = f.comment])
            /\ ctrCalls' = [ctrCalls EXCEPT ![d] = @ + 1]
            /\ Goto(p, "ctr_exists")
  /\ UNCHANGED <<env, view, acq, cfile, lastVal, afile, ufile, tmpf, lock, nfault,
                 returned, appended>>

\* A session presses save: the user logged in, the date selected in the
\* date input and the form fields. A form that fails a check ends the
\* handler with st.error; otherwise occ_dt = now_sydney() and the three
\* storage steps begin.
Submit(p) ==
  /\ pc[p] = "idle"
  /\ nsub < MaxSubs
  /\ nsub' = nsub + 1
  /\ \E u \in Users, d \in Days, f \in Forms :
       IF FormRejected(f)
       THEN UNCHANGED <<pc, loc, ctrCalls>>
       ELSE /\ SetLoc(p, [InitLoc EXCEPT
                 !.user = u, !.day = d, !.occ_dt = now, !.sub = nsub + 1,
                 !.technician_code = Strip(f.technician_code),
                 !.wo_code = Strip(f.wo_code),
                 !.dur_hours = parse_hhmm_to_hours(f.duration),
                 !.hour_type = Strip(f.hour_type),
                 !.occupation_type = Strip(f.occupation_type),
                 !.comment = f.comment])
            /\ ctrCalls' = [ctrCalls EXCEPT ![d] = @ + 1]
            /\ Goto(p, "ctr_exists")
  /\ UNCHANGED <<env, view, acq, cfile, lastVal, afile, ufile, tmpf, lock, nfault,
                 returned, appended>>

\* ----------------------------------------- get_next_occupation_id_for_day
\* if not cfile.exists()
CtrExists(p) ==
  /\ pc[p] = "ctr_exists"
  /\ IF cfile[loc[p].day].ex
     THEN /\ Goto(p, "lf_open")
          /\ SetLoc(p, [loc[p] EXCEPT !.kind = "ctr", !.mode = "r+b"])
     ELSE /\ Goto(p, "ctr_create_open")
          /\ UNCHANGED loc
  /\ UNCHANGED <<env, view, acq, cfile, lastVal, afile, ufile, tmpf, lock, nsub, nfault,
                 returned, ctrCalls, appended>>

\* cfile.write_bytes(...): the open for writing creates or empties the file
CtrCreateOpen(p) ==
  /\ pc[p] = "ctr_create_open"
  /\ SetCFile(loc[p].day, FileOf(<<>>))
  /\ Goto(p, "ctr_create_write")
  /\ UNCHANGED <<env, view, acq, afile, ufile, tmpf, lock, loc, nsub, nfault, returned,
                 ctrCalls, appended>>

\* cfile.write_bytes(...): the write of str(COUNTER_START) at offset 0
CtrCreateWrite(p) ==
  /\ pc[p] = "ctr_create_write"
  /\ SetCFile(loc[p].day,
              FileOf(WriteAt(cfile[loc[p].day].data, 0,
                             IntToStr(COUNTER_START), "nul")))
  /\ Goto(p, "lf_open")
  /\ SetLoc(p, [loc[p] EXCEPT !.kind = "ctr", !.mode = "r+b"])
  /\ UNCHANGED <<env, view, acq, afile, ufile, tmpf, lock, nsub, nfault, returned,
                 ctrCalls, appended>>

\* ------------------------------------------------------------ locked_file
\* path.write_bytes(b"") when an r+ file is missing, then open(path, mode):
\* w+b creates or empties the file.
LfOpen(p) ==
  /\ pc[p] = "lf_open"
  /\ IF loc[p].mode = "w+b" \/ ~TargetFile(p).ex
     THEN SetTarget(p, FileOf(<<>>))
     ELSE UNCHANGED <<cfile, lastVal, afile>>
  /\ SetLoc(p, [loc[p] EXCEPT !.fopen = TRUE, !.acquired = FALSE])
  /\ Goto(p, IF os_name = "nt" THEN "lf_pad" ELSE "lf_lock")
  /\ UNCHANGED <<env, view, acq, ufile, tmpf, lock, nsub, nfault, returned, ctrCalls,
                 appended>>

\* nt: a placeholder byte is written to an empty file before locking
LfPad(p) ==
  /\ pc[p] = "lf_pad"
  /\ IF TargetFile(p).data = <<>>
     THEN SetTarget(p, FileOf(IF loc[p].kind = "ctr" THEN <<" ">> ELSE <<SP>>))
     ELSE UNCHANGED <<cfile, lastVal, afile>>
  /\ Goto(p, "lf_lock")
  /\ UNCHANGED <<env, view, acq, ufile, tmpf, lock, loc, nsub, nfault, returned,
                 ctrCalls, appended>>

\* fcntl.flock(f, LOCK_EX) / msvcrt.locking(..., LK_LOCK, 1): waits until
\* the lock is free; acquired = True; yield f
LfLock(p) ==
  /\ pc[p] = "lf_lock"
  /\ lock[loc[p].kind][loc[p].day] = NoProc
  /\ lock' = [lock EXCEPT ![loc[p].kind][loc[p].day] = p]
  /\ SetLoc(p, [loc[p] EXCEPT !.acquired = TRUE,
                  !.prev = IF loc[p].kind = "agg"
                           THEN afile[loc[p].day].data ELSE <<>>])
  /\ acq' = IF loc[p].kind = "agg"
            THEN [acq EXCEPT ![loc[p].day] = Append(@, loc[p].sub)]
            ELSE acq
  /\ Goto(p, IF loc[p].kind = "ctr" THEN "ctr_read" ELSE "ap_size")
  /\ UNCHANGED <<env, view, cfile, lastVal, afile, ufile, tmpf, nsub, nfault,
                 returned, ctrCalls, appended>>

\* A finally clause that unlocks without looking at the acquired flag.
LfUnlockAlways(p) ==
  /\ pc[p] = "lf_unlock"
  /\ SetLoc(p, [loc[p] EXCEPT !.unlock_tried = TRUE])
  /\ \/ lock' = Released(p)
     \/ UNCHANGED lock
  /\ Goto(p, "lf_close")
  /\ UNCHANGED <<env, view, acq, cfile, lastVal, afile, ufile, tmpf, nsub, nfault,
                 returned, ctrCalls, appended>>

\* finally: unlock only if acquired; an OSError of the unlock is swallowed
LfUnlock(p) ==
  /\ pc[p] = "lf_unlock"
  /\ IF loc[p].acquired
     THEN /\ SetLoc(p, [loc[p] EXCEPT !.unlock_tried = TRUE])
          /\ \/ lock' = Released(p)
             \/ UNCHANGED lock
     ELSE UNCHANGED <<loc, lock>>
  /\ Goto(p, "lf_close")
  /\ UNCHANGED <<env, view, acq, cfile, lastVal, afile, ufile, tmpf, nsub, nfault,
                 returned, ctrCalls, appended>>

\* A close that does not drop a lock the unlock call left in place.
LfCloseKeepsLock(p) ==
  /\ pc[p] = "lf_close"
  /\ UNCHANGED lock
  /\ IF loc[p].exc
     THEN /\ Goto(p, "idle")
          /\ SetLoc(p, InitLoc)
          /\ UNCHANGED <<returned, appended>>
     ELSE IF loc[p].kind = "ctr"
     THEN /\ Goto(p, "aw_open")
          /\ SetLoc(p, [loc[p] EXCEPT !.occ_id = loc[p].current,
                          !.kind = "none", !.mode = "", !.fopen = FALSE,
                          !.acquired = FALSE, !.unlock_tried = FALSE,
                          !.current = 0])
          /\ returned' = [returned EXCEPT ![loc[p].day] =
                            Append(@, loc[p].current)]
          /\ UNCHANGED appended
     ELSE /\ Goto(p, "idle")
          /\ SetLoc(p, InitLoc)
          /\ appended' = [appended EXCEPT ![loc[p].day] =
                            Append(@, loc[p].elem)]
          /\ UNCHANGED returned
  /\ UNCHANGED <<env, view, acq, cfile, lastVal, afile, ufile, tmpf, nsub,
                 nfault, ctrCalls>>

\* finally: f.close(); then the with block is left: the exception goes on
\* to the caller, or get_next_occupation_id_for_day returns current, or
\* append_to_daily_all returns and the save handler is done.
LfClose(p) ==
  /\ pc[p] = "lf_close"
  /\ lock' = Released(p)
  /\ IF loc[p].exc
     THEN /\ Goto(p, "idle")
          /\ SetLoc(p, InitLoc)
          /\ UNCHANGED <<returned, appended>>
     ELSE IF loc[p].kind = "ctr"
     THEN /\ Goto(p, "aw_open")
          /\ SetLoc(p, [loc[p] EXCEPT !.occ_id = loc[p].current,
                          !.kind = "none", !.mode = "", !.fopen = FALSE,
                          !.acquired = FALSE, !.unlock_tried = FALSE,
                          !.current = 0])
          /\ returned' = [returned EXCEPT ![loc[p].day] =
                            Append(@, loc[p].current)]
          /\ UNCHANGED appended
     ELSE /\ Goto(p, "idle")
          /\ SetLoc(p, InitLoc)
          /\ appended' = [appended EXCEPT ![loc[p].day] =
                            Append(@, loc[p].elem)]
          /\ UNCHANGED returned
  /\ UNCHANGED <<env, view, acq, cfile, lastVal, afile, ufile, tmpf, nsub, nfault,
                 ctrCalls>>

\* ------------------------- get_next_occupation_id_for_day, under the lock
\* raw = f.read()...strip(); current = int(raw) if raw.isdigit() else
\* COUNTER_START; clamp to COUNTER_START.  int(raw) raises ValueError on a
\* digit character that is not a decimal digit.
CtrRead(p) ==
  /\ pc[p] = "ctr_read"
  /\ LET raw == Strip(cfile[loc[p].day].data)
         cur == IF IsDigitStr(raw) THEN StrToInt(raw) ELSE COUNTER_START
     IN IF IsDigitStr(raw) /\ ~IntAccepts(raw)
        THEN /\ SetLoc(p, [loc[p] EXCEPT !.exc = TRUE])
             /\ Goto(p, "lf_unlock")
        ELSE /\ SetLoc(p, [loc[p] EXCEPT !.current = Max(cur, COUNTER_START)])
             /\ Goto(p, "ctr_trunc")
  /\ UNCHANGED <<env, view, acq, cfile, lastVal, afile, ufile, tmpf, lock, nsub, nfault,
                 returned, ctrCalls, appended>>

\* f.seek(0); f.truncate()
CtrTrunc(p) ==
  /\ pc[p] = "ctr_trunc"
  /\ SetCFile(loc[p].day, FileOf(<<>>))
  /\ Goto(p, "ctr_write")
  /\ UNCHANGED <<env, view, acq, afile, ufile, tmpf, lock, loc, nsub, nfault, returned,
                 ctrCalls, appended>>

\* f.write(str(next_value)); f.flush(); os.fsync
CtrWrite(p) ==
  /\ pc[p] = "ctr_write"
  /\ SetCFile(loc[p].day,
              FileOf(WriteAt(cfile[loc[p].day].data, 0,
                             IntToStr(loc[p].current + 1), "nul")))
  /\ Goto(p, "lf_unlock")
  /\ UNCHANGED <<env, view, acq, afile, ufile, tmpf, lock, loc, nsub, nfault, returned,
                 ctrCalls, appended>>


\* ----------------------------------- per-user file: atomic_write_bytes
\* occ_elem = build_occupation_element(...); the content is
\* build_entities_xml_with_one(occ_elem); tmp.write_bytes opens the
\* temporary file, whose name no other call uses.
AwOpen(p) ==
  /\ pc[p] = "aw_open"
  /\ LET e == build_occupation_element(loc[p].sub, loc[p].user,
                [occ_id |-> loc[p].occ_id,
                 technician_code |-> loc[p].technician_code,
                 wo_code |-> loc[p].wo_code,
                 hour_type |-> loc[p].hour_type,
                 occupation_type |-> loc[p].occupation_type,
                 duration_hours |-> loc[p].dur_hours,
                 comments |-> loc[p].comment,
                 occ_dt |-> loc[p].occ_dt])
     IN SetLoc(p, [loc[p] EXCEPT !.elem = e,
                     !.new_content = build_entities_xml_with_one(e),
                     !.off = 0])
  /\ tmpf' = [tmpf EXCEPT ![p] = FileOf(<<>>)]
  /\ Goto(p, "aw_write")
  /\ UNCHANGED <<env, view, acq, cfile, lastVal, afile, ufile, lock, nsub, nfault,
                 returned, ctrCalls, appended>>

\* A writer that writes the content to the target path itself.
AwWriteInPlace(p) ==
  /\ pc[p] = "aw_write"
  /\ \E n \in 1..(Len(loc[p].new_content) - loc[p].off) :
       /\ ufile' = [ufile EXCEPT ![loc[p].user][loc[p].occ_dt] =
                      FileOf(WriteAt(@.data, loc[p].off,
                                     SubSeq(loc[p].new_content, loc[p].off + 1,
                                            loc[p].off + n), NUL))]
       /\ SetLoc(p, [loc[p] EXCEPT !.off = loc[p].off + n])
       /\ Goto(p, IF loc[p].off + n = Len(loc[p].new_content)
                  THEN "aw_replace" ELSE "aw_write")
  /\ UNCHANGED <<env, view, acq, cfile, lastVal, afile, tmpf, lock, nsub, nfault,
                 returned, ctrCalls, appended>>

\* tmp.write_bytes(content): the content reaches the temporary file in one
\* or several writes
AwWrite(p) ==
  /\ pc[p] = "aw_write"
  /\ \E n \in 1..(Len(loc[p].new_content) - loc[p].off) :
       /\ tmpf' = [tmpf EXCEPT ![p] =
                     FileOf(WriteAt(tmpf[p].data, loc[p].off,
                                    SubSeq(loc[p].new_content, loc[p].off + 1,
                                           loc[p].off + n), NUL))]
       /\ SetLoc(p, [loc[p] EXCEPT !.off = loc[p].off + n])
       /\ Goto(p, IF loc[p].off + n = Len(loc[p].new_content)
                  THEN "aw_replace" ELSE "aw_write")
  /\ UNCHANGED <<env, view, acq, cfile, lastVal, afile, ufile, lock, nsub, nfault,
                 returned, ctrCalls, appended>>

\* os.replace(tmp, path): the file named by the creation second of the
\* record becomes the temporary file
AwReplace(p) ==
  /\ pc[p] = "aw_replace"
  /\ ufile' = [ufile EXCEPT ![loc[p].user][loc[p].occ_dt] = tmpf[p]]
  /\ tmpf' = [tmpf EXCEPT ![p] = AbsentFile]
  /\ SetLoc(p, [loc[p] EXCEPT !.new_content = <<>>, !.off = 0])
  /\ Goto(p, "ap_exists")
  /\ UNCHANGED <<env, view, acq, cfile, lastVal, afile, lock, nsub, nfault, returned,
                 ctrCalls, appended>>

\* ---------------------------------------------------- append_to_daily_all
\* mode = "r+b" if out_path.exists() else "w+b"
ApExists(p) ==
  /\ pc[p] = "ap_exists"
  /\ SetLoc(p, [loc[p] EXCEPT !.kind = "agg",
                  !.mode = IF afile[loc[p].day].ex THEN "r+b" ELSE "w+b"])
  /\ Goto(p, "lf_open")
  /\ UNCHANGED <<env, view, acq, cfile, lastVal, afile, ufile, tmpf, lock, nsub, nfault,
                 returned, ctrCalls, appended>>

\* f.seek(0, os.SEEK_END); size = f.tell(); a fresh root when size == 0
ApSize(p) ==
  /\ pc[p] = "ap_size"
  /\ IF Len(afile[loc[p].day].data) = 0
     THEN /\ SetLoc(p, [loc[p] EXCEPT
                          !.new_content = xml_to_bytes(<<loc[p].elem>>),
                          !.off = 0])
          /\ Goto(p, "ap_write")
     ELSE /\ UNCHANGED loc
          /\ Goto(p, "ap_read")
  /\ UNCHANGED <<env, view, acq, cfile, lastVal, afile, ufile, tmpf, lock, nsub, nfault,
                 returned, ctrCalls, appended>>

\* An append that puts the new element before the children it found.
ApReadPrepend(p) ==
  /\ pc[p] = "ap_read"
  /\ LET existing == StripPadding(afile[loc[p].day].data)
         children == IF ParsesAsEntities(existing)
                     THEN ChildrenOf(existing) ELSE <<>>
     IN SetLoc(p, [loc[p] EXCEPT
                     !.new_content = xml_to_bytes(<<loc[p].elem>> \o children),
                     !.off = 0])
  /\ Goto(p, "ap_write")
  /\ UNCHANGED <<env, view, acq, cfile, lastVal, afile, ufile, tmpf, lock,
                 nsub, nfault, returned, ctrCalls, appended>>

\* existing = f.read() without its padding; the parsed root, or a fresh root
\* when it does not parse as entities; root.append(occupation_elem);
\* new_content = xml_to_bytes(root)
ApRead(p) ==
  /\ pc[p] = "ap_read"
  /\ LET existing == StripPadding(afile[loc[p].day].data)
         children == IF ParsesAsEntities(existing)
                     THEN ChildrenOf(existing) ELSE <<>>
     IN SetLoc(p, [loc[p] EXCEPT
                     !.new_content = xml_to_bytes(Append(children, loc[p].elem)),
                     !.off = 0])
  /\ Goto(p, "ap_write")
  /\ UNCHANGED <<env, view, acq, cfile, lastVal, afile, ufile, tmpf, lock, nsub, nfault,
                 returned, ctrCalls, appended>>

\* f.seek(0); f.write(new_content): the content overwrites the file in
\* place, in one or several writes
ApWrite(p) ==
  /\ pc[p] = "ap_write"
  /\ \E n \in 1..(Len(loc[p].new_content) - loc[p].off) :
       /\ SetAFile(loc[p].day,
                   FileOf(WriteAt(afile[loc[p].day].data, loc[p].off,
                                  SubSeq(loc[p].new_content, loc[p].off + 1,
                                         loc[p].off + n), NUL)))
       /\ SetLoc(p, [loc[p] EXCEPT !.off = loc[p].off + n])
       /\ Goto(p, IF loc[p].off + n = Len(loc[p].new_content)
                  THEN "ap_trunc" ELSE "ap_write")
  /\ UNCHANGED <<env, view, acq, cfile, lastVal, ufile, tmpf, lock, nsub, nfault,
                 returned, ctrCalls, appended>>

\* An append that does not cut the file after the write.
ApTruncSkip(p) ==
  /\ pc[p] = "ap_trunc"
  /\ Goto(p, "lf_unlock")
  /\ UNCHANGED <<env, view, acq, cfile, lastVal, afile, ufile, tmpf, lock, loc, nsub,
                 nfault, returned, ctrCalls, appended>>

\* f.truncate() at the position after the write; f.flush(); os.fsync
ApTrunc(p) ==
  /\ pc[p] = "ap_trunc"
  /\ SetAFile(loc[p].day,
              FileOf(TruncTo(afile[loc[p].day].data, loc[p].off, NUL)))
  /\ Goto(p, "lf_unlock")
  /\ UNCHANGED <<env, view, acq, cfile, lastVal, ufile, tmpf, lock, loc, nsub, nfault,
                 returned, ctrCalls, appended>>

\* ----------------------------------------------------------------- faults
\* An I/O call of p raises OSError (the lock call included).  Inside the
\* try of locked_file the finally clause runs; elsewhere the exception ends
\* the run of the script.
Raise(p) ==
  /\ nfault < MaxFaults
  /\ pc[p] \notin {"idle", "lf_unlock", "lf_close"}
  /\ nfault' = nfault + 1
  /\ IF loc[p].fopen
     THEN /\ SetLoc(p, [loc[p] EXCEPT !.exc = TRUE])
          /\ Goto(p, "lf_unlock")
     ELSE /\ SetLoc(p, InitLoc)
          /\ Goto(p, "idle")
  /\ UNCHANGED <<env, view, acq, cfile, lastVal, afile, ufile, tmpf, lock, nsub,
                 returned, ctrCalls, appended>>

\* The process of p dies (kill, power loss): no finally clause runs, the
\* system closes its handles and drops its locks; a new session starts idle.
Crash(p) ==
  /\ nfault < MaxFaults
  /\ pc[p] # "idle"
  /\ nfault' = nfault + 1
  /\ lock' = Released(p)
  /\ SetLoc(p, InitLoc)
  /\ Goto(p, "idle")
  /\ UNCHANGED <<env, view, acq, cfile, lastVal, afile, ufile, tmpf, nsub, returned,
                 ctrCalls, appended>>

\* A second passes.
Tick ==
  /\ now < MaxClock
  /\ now' = now + 1
  /\ UNCHANGED <<os_name, scen, view, acq, cfile, lastVal, afile, ufile, tmpf,
                 lock, pc, loc, nsub, nfault, returned, ctrCalls, appended>>

Next ==
  \/ \E p \in Procs : Submit(p)
  \/ \E p \in Procs : CtrExists(p)
  \/ \E p \in Procs : CtrCreateOpen(p)
  \/ \E p \in Procs : CtrCreateWrite(p)
  \/ \E p \in Procs : LfOpen(p)
  \/ \E p \in Procs : LfPad(p)
  \/ \E p \in Procs : LfLock(p)
  \/ \E p \in Procs : LfUnlock(p)
  \/ \E p \in Procs : LfClose(p)
  \/ \E p \in Procs : CtrRead(p)
  \/ \E p \in Procs : CtrTrunc(p)
  \/ \E p \in Procs : CtrWrite(p)
  \/ \E p \in Procs : AwOpen(p)
  \/ \E p \in Procs : AwWrite(p)
  \/ \E p \in Procs : AwReplace(p)
  \/ \E p \in Procs : ApExists(p)
  \/ \E p \in Procs : ApSize(p)
  \/ \E p \in Procs : ApRead(p)
  \/ \E p \in Procs : ApWrite(p)
  \/ \E p \in Procs : ApTrunc(p)
  \/ \E p \in Procs : Raise(p)
  \/ \E p \in Procs : Crash(p)
  \/ Tick

Spec == Init /\ [][Next]_vars


\* --------------------------------------------------------- fair scheduling
\* The steps of the save handler of p once it has started: the system runs
\* every session that can take a step, and a waiting lock call returns
\* once the lock stays free.
ProcStep(p) ==
  \/ CtrExists(p) \/ CtrCreateOpen(p) \/ CtrCreateWrite(p)
  \/ LfOpen(p) \/ LfPad(p) \/ LfLock(p) \/ LfUnlock(p) \/ LfClose(p)
  \/ CtrRead(p) \/ CtrTrunc(p) \/ CtrWrite(p)
  \/ AwOpen(p) \/ AwWrite(p) \/ AwReplace(p)
  \/ ApExists(p) \/ ApSize(p) \/ ApRead(p) \/ ApWrite(p) \/ ApTrunc(p)

Fairness == \A p \in Procs : WF_vars(ProcStep(p))

\* The runs from an empty data directory in which no process dies: saves,
\* their steps, and calls that raise.
LiveInit == Init /\ ~scen.c.ex /\ ~scen.a.ex

LiveNext == \E p \in Procs : Submit(p) \/ ProcStep(p) \/ Raise(p)

LiveSpec == LiveInit /\ [][LiveNext]_vars /\ Fairness

\* ------------------------------------------------ get_user_entries_for_day
\* ET.fromstring succeeds: one root element, entities or another, closed,
\* with occupation elements as its children and nothing after it.
WellFormed(s) ==
  /\ Len(s) >= 2
  /\ \/ s[1] = HDR /\ s[Len(s)] = END
     \/ s[1] = OHDR /\ s[Len(s)] = OEND
  /\ \A i \in 2..(Len(s) - 1) : IsRec(s[i])

\* _safe_text(elem, default) for the int-pair text of a date and for
\* character text; _safe_attr(elem, "code", "").
safe_text(c, default) == IF c.has THEN Strip(c.v) ELSE default
safe_date_text(c) == IF c.has THEN c.v ELSE <<>>
safe_attr(c) == IF c.has THEN c.v ELSE <<>>

NoRow ==
  [Time |-> 0, WO |-> <<>>, TimeType |-> <<>>, OccType |-> <<>>,
   Hours |-> 0, Comment |-> <<>>]

\* A loop body that does not compare the date of the timestamp.
ReadOneAnyDay(f, day) ==
  LET raw == StripPadding(f.data)
      skip == [ok |-> FALSE, row |-> NoRow]
  IN IF ~WellFormed(raw) THEN skip
     ELSE IF raw[1] # HDR THEN skip
     ELSE IF Len(raw) < 3 THEN skip
     ELSE LET occ == raw[2].x
              dt_txt == safe_date_text(occ.occupationDate)
          IN IF dt_txt = <<>> THEN skip
             ELSE IF ~StrptimeOk(dt_txt) THEN skip
             ELSE [ok |-> TRUE,
                   row |-> [Time |-> dt_txt[2],
                            WO |-> safe_attr(occ.WO),
                            TimeType |-> safe_attr(occ.hourType),
                            OccType |-> safe_attr(occ.type),
                            Hours |-> 1000 * RoundDiv(
                               safe_float(safe_text(occ.duration, <<"0">>)),
                               1000),
                            Comment |-> safe_text(occ.description, <<>>)]]

\* The body of the loop over the files for one file f: the row the file
\* adds (ok), or that it is passed over by a continue. Hours is
\* round(hours, 3), kept in millionths.
ReadOne(f, day) ==
  LET raw == StripPadding(f.data)
      skip == [ok |-> FALSE, row |-> NoRow]
  IN IF ~WellFormed(raw) THEN skip
     ELSE IF raw[1] # HDR THEN skip
     ELSE IF Len(raw) < 3 THEN skip
     ELSE LET occ == raw[2].x
              dt_txt == safe_date_text(occ.occupationDate)
          IN IF dt_txt = <<>> THEN skip
             ELSE IF ~StrptimeOk(dt_txt) THEN skip
             ELSE IF dt_txt[1] # day THEN skip
             ELSE [ok |-> TRUE,
                   row |-> [Time |-> dt_txt[2],
                            WO |-> safe_attr(occ.WO),
                            TimeType |-> safe_attr(occ.hourType),
                            OccType |-> safe_attr(occ.type),
                            Hours |-> 1000 * RoundDiv(
                               safe_float(safe_text(occ.duration, <<"0">>)),
                               1000),
                            Comment |-> safe_text(occ.description, <<>>)]]

\* sorted(user_folder.glob("*.xml")): the names of the files of the folder,
\* ascending.
RECURSIVE SortedNames(_)
SortedNames(S) ==
  IF S = {} THEN <<>>
  ELSE LET m == CHOOSE x \in S : \A y \in S : x <= y
       IN <<m>> \o SortedNames(S \ {m})

FolderFiles(u) == SortedNames({t \in Times : ufile[u][t].ex})

\* The order of str values: by the first character that differs, then by
\* length; characters in code point order.
CharOrder == <<"\n", " ", "-", "0", "1", "2", "3", "4", "5", "6", "7", "8",
               "9", ":", "I", "N", "T", "V", "W", "a", "b", "x">>
Rank(c) == CHOOSE i \in 1..Len(CharOrder) : CharOrder[i] = c

RECURSIVE StrLess(_, _)
StrLess(a, b) ==
  IF b = <<>> THEN FALSE
  ELSE IF a = <<>> THEN TRUE
  ELSE IF Head(a) = Head(b) THEN StrLess(Tail(a), Tail(b))
  ELSE Rank(Head(a)) < Rank(Head(b))

RowLess(a, b) ==
  a.Time < b.Time \/ (a.Time = b.Time /\ StrLess(a.WO, b.WO))

\* sort_values(["Time", "WO"]): rows in ascending order of Time, then WO;
\* rows equal in both keep their order.
RECURSIVE SortRows(_)
SortRows(r) ==
  IF r = <<>> THEN <<>>
  ELSE LET rest == SortRows(Tail(r))
           k == Cardinality({i \in 1..Len(rest) : RowLess(rest[i], Head(r))})
       IN SubSeq(rest, 1, k) \o <<Head(r)>> \o SubSeq(rest, k + 1, Len(rest))

\* The days that can be asked for: those of the date input and those of
\* the instants of the clock.
ViewDays == Days \cup {DateOf(t) : t \in Times}

\* One iteration of the loop over the files of the folder.
RdFile ==
  /\ rpc = "loop"
  /\ fpos < Len(FolderFiles(user_folder))
  /\ LET f == ufile[user_folder][FolderFiles(user_folder)[fpos + 1]]
         r == ReadOne(f, selected_day)
     IN rows' = IF r.ok THEN Append(rows, r.row) ELSE rows
  /\ fpos' = fpos + 1
  /\ UNCHANGED <<env, acq, cfile, lastVal, afile, ufile, tmpf, lock, pc, loc,
                 nsub, nfault, returned, ctrCalls, appended, user_folder,
                 selected_day, rpc, df>>

\* The end of the loop: the empty table, or the rows sorted.
RdReturn ==
  /\ rpc = "loop"
  /\ fpos = Len(FolderFiles(user_folder))
  /\ df' = SortRows(rows)
  /\ rpc' = "done"
  /\ UNCHANGED <<env, acq, cfile, lastVal, afile, ufile, tmpf, lock, pc, loc,
                 nsub, nfault, returned, ctrCalls, appended, user_folder,
                 selected_day, fpos, rows>>

\* The script runs again for another date of the date input.
RdRerun ==
  /\ rpc = "done"
  /\ \E d \in ViewDays \ {selected_day} : selected_day' = d
  /\ rpc' = "loop"
  /\ fpos' = 0
  /\ rows' = <<>>
  /\ df' = <<>>
  /\ UNCHANGED <<env, acq, cfile, lastVal, afile, ufile, tmpf, lock, pc, loc,
                 nsub, nfault, returned, ctrCalls, appended, user_folder>>

\* The arguments of build_occupation_element the documents are built from.
DocArgs ==
  [occ_id : {COUNTER_START}, technician_code : {<<"T">>},
   wo_code : {<<"W">>}, hour_type : {<<"N">>},
   occupation_type : {<<>>, <<"I">>},
   duration_hours : {90, 1},
   comments : {<<>>, <<" ", "a", "\n", "b">>},
   occ_dt : Times]
  \cup
  [occ_id : {COUNTER_START + 1}, technician_code : {<<"T">>},
   wo_code : {<<"V">>}, hour_type : {<<"N">>},
   occupation_type : {<<" ">>}, duration_hours : {1},
   comments : {<<"b", "\n">>}, occ_dt : {0}]

BaseArgs == CHOOSE a \in DocArgs :
  /\ a.wo_code = <<"W">> /\ a.occupation_type = <<"I">>
  /\ a.duration_hours = 90 /\ a.comments = <<>> /\ a.occ_dt = 0

BaseRec == build_occupation_element(0, 1, BaseArgs)

\* BaseRec with one child changed.
Without(field) == [BaseRec EXCEPT !.x = [@ EXCEPT ![field] = Absent]]
WithText(field, text) ==
  [BaseRec EXCEPT !.x = [@ EXCEPT ![field] = Child(text)]]

\* Files a folder can hold that no save wrote as they are: empty, not XML,
\* cut short, followed by other bytes, of another root, without or with
\* two occupation elements, with a child missing or with a text that does
\* not read as a date or a number, and a document behind zero bytes.
DamagedDocs ==
  {<<>>, <<JUNK>>, <<HDR, BaseRec>>, <<HDR, BaseRec, END, JUNK>>,
   <<OHDR, BaseRec, OEND>>, <<HDR, END>>,
   <<HDR, BaseRec, WithText("WO", <<"V">>), END>>,
   <<HDR, Without("occupationDate"), END>>,
   <<HDR, WithText("occupationDate", <<>>), END>>,
   <<HDR, WithText("occupationDate", <<1>>), END>>,
   <<HDR, WithText("occupationDate", <<1, SecsPerDay>>), END>>,
   <<HDR, Without("WO"), END>>,
   <<HDR, Without("hourType"), END>>,
   <<HDR, Without("duration"), END>>,
   <<HDR, WithText("duration", <<"x">>), END>>,
   <<NUL, NUL, SP, HDR, BaseRec, END>>}

EncodedDocs ==
  {build_entities_xml_with_one(build_occupation_element(0, 1, a)) :
     a \in DocArgs}

\* A folder of any of these files; the date input starts at today.
ReaderInit ==
  /\ os_name = "posix"
  /\ now = 0
  /\ scen = [c |-> AbsentFile, a |-> AbsentFile, u |-> FALSE]
  /\ cfile = [d \in Days |-> AbsentFile]
  /\ afile = [d \in Days |-> AbsentFile]
  /\ user_folder \in Users
  /\ \E folder \in [Times -> {AbsentFile} \cup
                       {FileOf(d) : d \in DamagedDocs \cup EncodedDocs}] :
       ufile = [u \in Users |->
                  IF u = user_folder THEN folder
                  ELSE [t \in Times |-> AbsentFile]]
  /\ tmpf = [p \in Procs |-> AbsentFile]
  /\ lock = [k \in {"ctr", "agg"} |-> [d \in Days |-> NoProc]]
  /\ pc = [p \in Procs |-> "idle"]
  /\ loc = [p \in Procs |-> InitLoc]
  /\ nsub = 0
  /\ nfault = 0
  /\ returned = [d \in Days |-> <<>>]
  /\ ctrCalls = [d \in Days |-> 0]
  /\ appended = [d \in Days |-> <<>>]
  /\ lastVal = [d \in Days |-> NoVal]
  /\ acq = [d \in Days |-> <<>>]
  /\ selected_day = DateOf(now)
  /\ rpc = "loop"
  /\ fpos = 0
  /\ rows = <<>>
  /\ df = <<>>

ReaderNext == RdFile \/ RdReturn \/ RdRerun

ReaderSpec == ReaderInit /\ [][ReaderNext]_vars

\* ----------------------------------------------------------------- claims
\* The counter file of day d did not exist at start.
CounterAbsentAtStart(d) == d # 1 \/ ~scen.c.ex

\* The aggregate file of day d at start.
AggAtStart(d) == IF d = 1 THEN scen.a ELSE AbsentFile

\* No append_to_daily_all call for day d is under way.
NoAppendUnderWay(d) ==
  \A p \in Procs : loc[p].kind = "agg" => loc[p].day # d

SeqToSet(s) == {s[i] : i \in 1..Len(s)}

\* C1: when the counter file of a day did not exist at start and every
\* get_next_occupation_id_for_day call made for the day has returned, the
\* ids returned are exactly 300 .. 300+N-1, each returned once.
C1_IdsExactlyOnce ==
  \A d \in Days :
    (CounterAbsentAtStart(d) /\ Len(returned[d]) = ctrCalls[d])
      => SeqToSet(returned[d])
           = COUNTER_START..(COUNTER_START + ctrCalls[d] - 1)

\* C2: when the aggregate file of a day was absent or a parseable envelope
\* at start, nothing failed, and every append_to_daily_all call for the day
\* has returned, the file parses as one entities envelope whose children are
\* the children it had at start followed by every appended element once.
C2_BothRecordsKept ==
  \A d \in Days :
    LET a0 == AggAtStart(d)
        old == IF a0.ex THEN ChildrenOf(a0.data) ELSE <<>>
        ch == ChildrenOf(afile[d].data)
    IN (/\ ~a0.ex \/ ParsesAsEntities(a0.data)
        /\ nfault = 0
        /\ NoAppendUnderWay(d)
        /\ appended[d] # <<>>)
         => /\ ParsesAsEntities(afile[d].data)
            /\ Len(ch) = Len(old) + Len(appended[d])
            /\ SubSeq(ch, 1, Len(old)) = old
            /\ \A i \in 1..Len(appended[d]) :
                 Cardinality({j \in 1..Len(ch) : ch[j] = appended[d][i]}) = 1

\* C3: while a process holds the lock of a counter file or of an aggregate
\* file, a step that changes the file is a step of that process.
C3_OnlyHolderChanges ==
  [][\A d \in Days :
       /\ (lock["ctr"][d] # NoProc /\ cfile'[d] # cfile[d])
            => (pc'[lock["ctr"][d]] # pc[lock["ctr"][d]]
                \/ loc'[lock["ctr"][d]] # loc[lock["ctr"][d]])
       /\ (lock["agg"][d] # NoProc /\ afile'[d] # afile[d])
            => (pc'[lock["agg"][d]] # pc[lock["agg"][d]]
                \/ loc'[lock["agg"][d]] # loc[lock["agg"][d]])]_vars


\* p stands inside a with locked_file block (after the open, before the
\* close has run).
InWith(p) ==
  pc[p] \in {"lf_pad", "lf_lock", "ctr_read", "ctr_trunc", "ctr_write",
             "ap_size", "ap_read", "ap_write", "ap_trunc", "lf_unlock",
             "lf_close"}

HoldsLock(p) == \E k \in {"ctr", "agg"}, d \in Days : lock[k][d] = p

\* C4: a process outside a with locked_file block holds no lock and has no
\* open handle, whether the body ended normally or raised; the unlock call
\* is made only when the lock was acquired; when the acquisition raised, the
\* finally clause is reached with the exception pending and unlocks nothing.
C4_LockReleasedOnEveryExit ==
  \A p \in Procs :
    /\ ~InWith(p) => (~HoldsLock(p) /\ ~loc[p].fopen)
    /\ loc[p].unlock_tried => loc[p].acquired
    /\ HoldsLock(p) => loc[p].acquired
    /\ (pc[p] \in {"lf_unlock", "lf_close"} /\ ~loc[p].acquired)
         => (loc[p].exc /\ ~loc[p].unlock_tried /\ ~HoldsLock(p))
    /\ loc[p].exc => pc[p] \in {"lf_unlock", "lf_close"}

\* C4 witness: the body of one process raised after it acquired the lock,
\* its finally clause has unlocked; the lock call of another process raised,
\* its finally clause has run without an unlock.
C4_Witness ==
  \E p, q \in Procs :
    /\ pc[p] = "lf_close" /\ loc[p].exc /\ loc[p].acquired
    /\ loc[p].unlock_tried /\ ~HoldsLock(p)
    /\ pc[q] = "lf_close" /\ loc[q].exc /\ ~loc[q].acquired
    /\ ~loc[q].unlock_tried

\* C5: a per-user file changes only in the step that completes os.replace,
\* and then holds the complete new content; every other step, a failure or
\* a crash of the writer before the rename included, leaves it as it was.
C5_TargetNeverPartial ==
  [][\A u \in Users, t \in Times :
       \/ ufile'[u][t] = ufile[u][t]
       \/ \E p \in Procs :
            /\ pc[p] = "aw_replace" /\ pc'[p] = "ap_exists"
            /\ loc[p].user = u /\ loc[p].occ_dt = t
            /\ ufile'[u][t] = FileOf(build_entities_xml_with_one(loc[p].elem))
    ]_vars

\* C5 witness: an atomic write onto the existing file of R0 was interrupted
\* with its temporary file partly written; the target still holds R0.
C5_Witness ==
  /\ scen.u
  /\ now = R0.dt
  /\ nfault > 0
  /\ \E p \in Procs :
       /\ pc[p] = "idle"
       /\ tmpf[p].ex
       /\ Len(tmpf[p].data) \in 1..2
  /\ ufile[R0.user][R0.dt] = FileOf(build_entities_xml_with_one(R0))

\* C6: when an append_to_daily_all call is interrupted (a crash or an I/O
\* error) while it holds the lock, the aggregate file holds the content it
\* had at lock acquisition or the complete new content, or at least a
\* content the next append parses.
C6_AppendAtomic ==
  [][\A p \in Procs :
       (/\ loc[p].kind = "agg" /\ loc[p].acquired /\ ~loc[p].exc
        /\ pc[p] \in {"ap_size", "ap_read", "ap_write", "ap_trunc"}
        /\ (pc'[p] = "idle" \/ loc'[p].exc))
         => LET data == afile[loc[p].day].data
            IN \/ data = loc[p].prev
               \/ data = loc[p].new_content
               \/ data = <<>>
               \/ ParsesAsEntities(StripPadding(data))]_vars

\* C7: the ids of the occupation records of a day's aggregate file are
\* pairwise distinct (the claim also orders them; the part stated here is
\* the uniqueness of an id within its day), in the runs without an I/O
\* failure or a crash, at the states where the file is a whole envelope.
C7_IdsDistinct ==
  \A d \in Days :
    (nfault = 0 /\ ParsesAsEntities(afile[d].data))
      => \A i, j \in RecsIn(afile[d].data) :
           i # j => afile[d].data[i].id # afile[d].data[j].id

\* The records append_to_daily_all calls that returned have written to the
\* aggregate file of day d, and those it held at start.
WrittenToAgg(d) ==
  SeqToSet(appended[d]) \cup
  (IF AggAtStart(d).ex /\ ParsesAsEntities(AggAtStart(d).data)
   THEN SeqToSet(ChildrenOf(AggAtStart(d).data)) ELSE {})

\* C8: no step removes a record written to a day's aggregate file from that
\* file (the claim says the same of the per-user files; the part stated
\* here is the aggregate log, in the runs without an I/O failure or a crash).
C8_AppendOnly ==
  [][\A d \in Days : \A e \in WrittenToAgg(d) :
       (nfault' = 0 /\ e \in SeqToSet(afile[d].data))
         => e \in SeqToSet(afile'[d].data)]_vars

\* C9: the integer stored in a counter file never decreases, and once it is
\* at least the base a change of it is an increase by one.
C9_CounterMonotonic ==
  [][\A d \in Days :
       lastVal[d] # NoVal =>
         /\ lastVal'[d] >= lastVal[d]
         /\ lastVal[d] >= COUNTER_START
              => lastVal'[d] \in {lastVal[d], lastVal[d] + 1}]_vars

\* The counter file of day d at start.
CounterAtStart(d) == IF d = 1 THEN scen.c ELSE AbsentFile

\* The id C10 expects of a call that finds counter file f.
ExpectedId(f) ==
  IF f.ex /\ IntAccepts(Strip(f.data))
  THEN Max(StrToInt(Strip(f.data)), COUNTER_START)
  ELSE COUNTER_START

\* C10: when one get_next_occupation_id_for_day call has been made, alone
\* and without an I/O failure, and it is over, it has returned c and the
\* counter file holds c+1, where c is 300 for an absent, empty, unparsable
\* or below-base file and the stored value otherwise.
C10_SingleCall ==
  \A d \in Days :
    (/\ nsub = 1 /\ nfault = 0 /\ ctrCalls[d] = 1
     /\ \A p \in Procs : pc[p] \in {"idle", "aw_open"})
      => /\ returned[d] = <<ExpectedId(CounterAtStart(d))>>
         /\ cfile[d] = FileOf(IntToStr(ExpectedId(CounterAtStart(d)) + 1))


\* No process but p has the aggregate file of day d open: none changed it
\* while p held its lock (in a run without failures a process that opened
\* the file stays at the lock call while p holds the lock).
AloneOnAgg(p, d) ==
  \A q \in Procs \ {p} :
    ~(loc[q].kind = "agg" /\ loc[q].day = d /\ loc[q].fopen)

\* The content of the aggregate file p found under its lock is not empty
\* and does not parse as an entities envelope.
FoundUnparsable(p) ==
  /\ loc[p].prev # <<>>
  /\ ~ParsesAsEntities(StripPadding(loc[p].prev))

\* C11: an append that finds non-empty content that does not parse as an
\* entities envelope does not raise at the parse, and when it has cut the
\* file (no failure in the run, no other process on the file) the file is
\* the envelope of the new record alone, with none of the old bytes left.
C11_FreshEnvelope ==
  [][\A p \in Procs :
       /\ (pc[p] = "ap_read" /\ pc'[p] # "ap_read" /\ nfault' = nfault)
            => (pc'[p] = "ap_write" /\ ~loc'[p].exc)
       /\ (/\ pc[p] = "ap_trunc" /\ pc'[p] = "lf_unlock" /\ ~loc'[p].exc
           /\ nfault' = 0
           /\ FoundUnparsable(p)
           /\ AloneOnAgg(p, loc[p].day))
            => afile'[loc[p].day] = FileOf(xml_to_bytes(<<loc[p].elem>>))
    ]_vars

\* C11 witness: an append found a document of another root, longer than the
\* new envelope, and has left the envelope of its record alone.
C11_Witness ==
  \E p \in Procs :
    /\ pc[p] = "lf_unlock" /\ loc[p].kind = "agg" /\ ~loc[p].exc
    /\ nfault = 0
    /\ FoundUnparsable(p)
    /\ loc[p].prev[1] = OHDR
    /\ Len(loc[p].prev) > Len(xml_to_bytes(<<loc[p].elem>>))
    /\ afile[loc[p].day] = FileOf(xml_to_bytes(<<loc[p].elem>>))


\* C12: a save whose form fails a check (blank technician code, blank
\* work-order code, duration that parse_hhmm_to_hours rejects) touches no
\* file and consumes no id; the storage steps begin only with checked
\* values.
C12_RejectedTouchesNothing ==
  [][/\ (nsub' # nsub /\ pc' = pc)
          => UNCHANGED <<cfile, afile, ufile, tmpf, lock, returned,
                         ctrCalls, appended, lastVal, loc>>
     /\ \A p \in Procs :
          (pc[p] = "idle" /\ pc'[p] # "idle")
            => /\ loc'[p].technician_code # <<>>
               /\ loc'[p].wo_code # <<>>
               /\ loc'[p].dur_hours # NoHours
               /\ \E f \in Forms :
                    /\ ~FormRejected(f)
                    /\ loc'[p].dur_hours = parse_hhmm_to_hours(f.duration)
    ]_vars

\* C12 witness: a save was rejected after another had stored its record;
\* no counter call was added and the files are those of the first save.
C12_Witness ==
  /\ nsub = 2
  /\ nfault = 0
  /\ \A p \in Procs : pc[p] = "idle"
  /\ \E d \in Days :
       /\ ctrCalls[d] = 1
       /\ Len(returned[d]) = 1
       /\ Len(appended[d]) = 1
       /\ lastVal[d] = returned[d][1] + 1


\* C13: when the lock call of locked_file raises, the target file is as it
\* was before the call; in particular an aggregate file that did not exist
\* when the call chose its mode ("w+b") does not exist afterwards.
C13_FailedLockLeavesFile ==
  [][\A p \in Procs :
       (/\ pc[p] = "lf_lock" /\ ~loc[p].exc /\ loc'[p].exc
        /\ loc[p].kind = "agg" /\ loc[p].mode = "w+b")
         => ~afile'[loc[p].day].ex
    ]_vars


\* The file an iteration of the loop of get_user_entries_for_day reads.
FileAtPos == ufile[user_folder][FolderFiles(user_folder)[fpos + 1]]

\* A child element is missing: not there, or without text.
Missing(c) == ~c.has \/ c.v = <<>>

\* The timestamp of an occupation element reads as an instant of that day.
OnDay(occ, day) ==
  /\ ~Missing(occ.occupationDate)
  /\ StrptimeOk(occ.occupationDate.v)
  /\ occ.occupationDate.v[1] = day

\* C14: reading a folder, a document of the day asked for is passed over
\* exactly when it does not parse, its root is not entities, it does not
\* hold exactly one occupation element, or its timestamp, work-order code,
\* hour type or duration is missing; every other
\* document adds its row.
C14_SkippedExactlyWhen ==
  [][(rpc = "loop" /\ fpos' = fpos + 1) =>
       LET raw == StripPadding(FileAtPos.data)
           decodable ==
             /\ WellFormed(raw)
             /\ raw[1] = HDR
             /\ Len(raw) = 3
             /\ ~Missing(raw[2].x.occupationDate)
             /\ ~Missing(raw[2].x.WO)
             /\ ~Missing(raw[2].x.hourType)
             /\ ~Missing(raw[2].x.duration)
       IN IF decodable /\ OnDay(raw[2].x, selected_day)
          THEN Len(rows') = Len(rows) + 1
          ELSE rows' = rows
    ]_vars


\* The reader decodes the document: it parses, its root is entities, it
\* holds an occupation element, and the timestamp of the first reads as an
\* instant.
Decodable(raw) ==
  /\ WellFormed(raw)
  /\ raw[1] = HDR
  /\ Len(raw) >= 3
  /\ ~Missing(raw[2].x.occupationDate)
  /\ StrptimeOk(raw[2].x.occupationDate.v)

\* The last second of its day.
LastSecond(t) == (t + 1) % SecsPerDay = 0

\* C15: a decodable document adds a row to the rows of day d exactly when
\* the date of its timestamp is d; for a document a save wrote at instant
\* t that date is the calendar date of t, so a record of the last second
\* of its day shows for that day and not for the next.
C15_RowIffSameDate ==
  [][(rpc = "loop" /\ fpos' = fpos + 1) =>
       LET raw == StripPadding(FileAtPos.data)
       IN Decodable(raw) =>
            /\ (Len(rows') = Len(rows) + 1)
                 <=> (raw[2].x.occupationDate.v[1] = selected_day)
            /\ (Len(rows') = Len(rows) + 1) \/ rows' = rows
            /\ <<raw[2]>> \in {ChildrenOf(d) : d \in EncodedDocs}
                 => (Len(rows') = Len(rows) + 1)
                      <=> (DateOf(raw[2].dt) = selected_day)
    ]_vars

\* C15 witness: the folder holds a document of the last second of a day
\* and one of the next day; read for the first day, the table has the row
\* of the first document alone.
C15_Witness ==
  /\ rpc = "done"
  /\ Len(df) = 1
  /\ \E t1, t2 \in Times :
       /\ ufile[user_folder][t1].data \in EncodedDocs
       /\ ufile[user_folder][t2].data \in EncodedDocs
       /\ LET r1 == ufile[user_folder][t1].data[2]
              r2 == ufile[user_folder][t2].data[2]
          IN /\ LastSecond(r1.dt)
             /\ DateOf(r1.dt) = selected_day
             /\ DateOf(r2.dt) = selected_day + 1
             /\ df[1].Time = r1.dt % SecsPerDay


\* The arguments a document of EncodedDocs was built from.
ArgsOf(doc) ==
  CHOOSE a \in DocArgs :
    doc = build_entities_xml_with_one(build_occupation_element(0, 1, a))

\* C16: the row the reader makes of the document encoded from a record
\* carries the fields of the record unchanged: the time of the timestamp,
\* the work-order code, the hour type, the occupation type ("" for a blank
\* one), the comment as stored and the duration as stored.
C16_RoundTrip ==
  [][(/\ rpc = "loop" /\ fpos' = fpos + 1
      /\ FileAtPos.data \in EncodedDocs
      /\ Len(rows') = Len(rows) + 1) =>
       LET a == ArgsOf(FileAtPos.data)
           occ == FileAtPos.data[2].x
           row == rows'[Len(rows')]
       IN /\ row.Time = a.occ_dt % SecsPerDay
          /\ row.WO = a.wo_code
          /\ row.TimeType = a.hour_type
          /\ row.OccType = Strip(a.occupation_type)
          /\ row.Comment = CommentText(a.comments)
          /\ row.Hours = safe_float(occ.duration.v)
          /\ safe_float(occ.duration.v) = RoundDiv(a.duration_hours * Micro, 60)
    ]_vars


\* C17: every record a save stored in the aggregate file of day d is
\* stamped on day d, and get_user_entries_for_day asked for d returns the
\* row of its per-user document.
C17_AggregateOfItsDay ==
  nfault = 0 =>
    \A d \in Days : \A i \in RecsIn(afile[d].data) :
      LET rec == afile[d].data[i]
      IN rec.sub > 0 =>
           /\ DateOf(rec.dt) = d
           /\ ReadOne(FileOf(build_entities_xml_with_one(rec)), d).ok


\* The place of submission n in an order of aggregate-lock acquisitions.
AcqPos(order, n) == CHOOSE i \in 1..Len(order) : order[i] = n

\* The content of the aggregate file p found under its lock parses as an
\* entities envelope.
FoundEnvelope(p) == ParsesAsEntities(StripPadding(loc[p].prev))

\* No append_to_daily_all call is in the middle of rewriting the aggregate
\* file of day d, for the positions pcv and the locals locv.
NoRewriteUnderWay(pcv, locv, d) ==
  \A p \in Procs :
    (locv[p].kind = "agg" /\ locv[p].day = d)
      => pcv[p] \notin {"ap_write", "ap_trunc"}

\* C18: an append that finds an entities envelope leaves, when it has cut
\* the file (no failure in the run, no other process on the file), the
\* children it found followed by the new record as the last one; and the
\* records saves put into a day's aggregate file stand, whenever no append
\* is in the middle of rewriting the file, in the order in which their
\* appends got the lock.
C18_AppendedLast ==
  [][/\ \A p \in Procs :
          (/\ pc[p] = "ap_trunc" /\ pc'[p] = "lf_unlock" /\ ~loc'[p].exc
           /\ nfault' = 0
           /\ FoundEnvelope(p)
           /\ AloneOnAgg(p, loc[p].day))
            => afile'[loc[p].day] =
                 FileOf(xml_to_bytes(
                   Append(ChildrenOf(StripPadding(loc[p].prev)),
                          loc[p].elem)))
     /\ \A d \in Days :
          (nfault' = 0 /\ NoRewriteUnderWay(pc', loc', d)) =>
          \A i, j \in RecsIn(afile'[d].data) :
            LET a == afile'[d].data[i]
                b == afile'[d].data[j]
            IN (i < j /\ a.sub > 0 /\ b.sub > 0)
                 => /\ a.sub \in SeqToSet(acq'[d])
                    /\ b.sub \in SeqToSet(acq'[d])
                    /\ AcqPos(acq'[d], a.sub) < AcqPos(acq'[d], b.sub)
    ]_vars

\* C18 witness: two saves appended to the file that held the record R0;
\* the file holds R0 and the two records in the order the locks were got,
\* the later id first.
C18_Witness ==
  \E d \in Days :
    /\ nfault = 0
    /\ Len(acq[d]) = 2
    /\ NoAppendUnderWay(d)
    /\ ParsesAsEntities(afile[d].data)
    /\ Len(afile[d].data) = 5
    /\ afile[d].data[2] = R0
    /\ afile[d].data[3].sub = acq[d][1]
    /\ afile[d].data[4].sub = acq[d][2]
    /\ afile[d].data[3].id > afile[d].data[4].id


\* Process p holds the counter lock of a day and the aggregate lock of a
\* day.
HoldsBoth(p) ==
  /\ \E d \in Days : lock["ctr"][d] = p
  /\ \E d \in Days : lock["agg"][d] = p

HasUserDoc(uf, rec) ==
  LET f == uf[rec.user][rec.dt]
  IN \/ f = FileOf(build_entities_xml_with_one(rec))
     \/ /\ f.ex
        /\ Len(f.data) = 3
        /\ IsRec(f.data[2])
        /\ f.data[2].sub # rec.sub

\* Order and absence of rollback, without the reissue of ids: a session
\* writes its per-user file only with an id the counter returned to it and
\* appends only with its per-user file written; every record of a save in
\* an aggregate file has its per-user document; a failing step leaves the
\* counter file, the returned ids, the per-user files and the aggregate
\* files as they are.
OrderNoRollback ==
  /\ \A p \in Procs :
       /\ pc'[p] \in {"aw_open", "aw_write", "aw_replace"}
            => loc'[p].occ_id \in SeqToSet(returned'[loc'[p].day])
       /\ loc'[p].kind = "agg"
            => ufile'[loc'[p].user][loc'[p].occ_dt].ex
  /\ \A d \in Days : \A i \in RecsIn(afile'[d].data) :
       afile'[d].data[i].sub > 0 => HasUserDoc(ufile', afile'[d].data[i])
  /\ nfault' # nfault => UNCHANGED <<cfile, ufile, afile, returned, lastVal>>

\* C20: the storage steps of a save run in the order id, per-user file,
\* aggregate append, nothing is rolled back when a step fails, every record
\* in an aggregate file has its per-user document, and an id whose save
\* failed is not returned again: an id returned a second time belongs to a
\* save still under way or to a record whose append returned.
C20_OrderNoRollbackNoReissue ==
  [][/\ OrderNoRollback
     /\ \A q \in Procs :
          (pc[q] = "lf_close" /\ pc'[q] = "aw_open") =>
            LET c == loc'[q].occ_id
                d == loc[q].day
            IN c \in SeqToSet(returned[d]) =>
                 \/ \E p \in Procs \ {q} :
                      /\ pc[p] # "idle" /\ loc[p].day = d
                      /\ loc[p].occ_id = c
                 \/ \E i \in 1..Len(appended[d]) : appended[d][i].id = c
    ]_vars

====
